---- MODULE Spec2Model ----
(***************************************************************************)
(* Focus border of the accessibility module                                *)
(* (ts/modules/accessibility/focusBorder.ts).                              *)
(*                                                                         *)
(* SVGElement.addFocusBorder / SVGElement.removeFocusBorder draw and       *)
(* destroy the overlay rectangle of one element; Chart.setFocusToElement   *)
(* sets the browser focus and moves the chart's single focus border.       *)
(*                                                                         *)
(* Numbers.  Element geometry (bounding box, translation, x/y attributes,  *)
(* margin) is given in whole units.  The rectangle handed to renderer.rect *)
(* is kept in thousandths of a unit, so that the corrections 0.5, 0.068    *)
(* and 0.25 of the source are exact: 41.32 is 41320.                       *)
(*                                                                         *)
(* Optional numbers (a property that may be undefined) are sequences of    *)
(* length at most one: << >> is undefined, <<v>> is the value v.           *)
(*                                                                         *)
(* Strings.  A JavaScript string is the sequence of its UTF-16 code units: *)
(* "5px" is <<53, 112, 120>>.                                              *)
(***************************************************************************)
EXTENDS Integers, Sequences, FiniteSets, TLC

\* ------------------------------------------------------------------ bounds
NumElements == 2        \* SVG elements of the chart
MaxOverlays == 3        \* rectangles created by renderer.rect in one run

Elements == 1 .. NumElements
\* Element e has the DOM node e; one more node, an HTML element that is not
\* the node of an SVG element, can be handed to setFocusToElement.
ProxyNode == NumElements + 1
Nodes == 1 .. ProxyNode
ExtraNodes == {ProxyNode}

NoElement == 0
NoOverlay == 0
NoNode == 0
Undefined == << >>

\* ------------------------------------------------- JavaScript value helpers
\* A value of style.borderRadius: undefined, a number, a string or NaN.
JsUndefined == [t |-> "undefined", n |-> 0, s |-> << >>]
JsNaN == [t |-> "NaN", n |-> 0, s |-> << >>]
JsNumber(n) == [t |-> "number", n |-> n, s |-> << >>]
JsString(s) == [t |-> "string", n |-> 0, s |-> s]

\* The characters "0" .. "9" (U+0030 .. U+0039).
DigitChars == <<48, 49, 50, 51, 52, 53, 54, 55, 56, 57>>

IsDigit(c) == \E i \in 1 .. 10 : DigitChars[i] = c

DigitValue(c) == (CHOOSE i \in 1 .. 10 : DigitChars[i] = c) - 1

\* ToBoolean of a value, as the operators && and || apply it.
truthy(v) ==
    CASE v.t = "undefined" -> FALSE
      [] v.t = "NaN" -> FALSE
      [] v.t = "number" -> v.n # 0
      [] v.t = "string" -> v.s # << >>

RECURSIVE natToString(_)
natToString(n) ==
    IF n < 10 THEN <<DigitChars[n + 1]>>
    ELSE Append(natToString(n \div 10), DigitChars[(n % 10) + 1])

\* Number.prototype.toString / String.prototype.toString.
toString(v) ==
    CASE v.t = "string" -> v.s
      [] v.t = "number" ->
            IF v.n < 0 THEN <<45>> \o natToString(-v.n)     \* "-"
            ELSE natToString(v.n)
      [] v.t = "NaN" -> <<78, 97, 78>>                      \* "NaN"
      [] v.t = "undefined" ->                               \* "undefined"
            <<117, 110, 100, 101, 102, 105, 110, 101, 100>>

\* The white space and line terminators parseInt skips at the front of a
\* string: tab, line feed, vertical tab, form feed, carriage return, space,
\* no-break space, U+1680, U+2000 .. U+200A, line and paragraph separator,
\* U+202F, U+205F, U+3000 and the byte order mark U+FEFF.
WhiteChars ==
    {9, 10, 11, 12, 13, 32, 160, 5760} \cup (8192 .. 8202)
        \cup {8232, 8233, 8239, 8287, 12288, 65279}

RECURSIVE skipWhite(_)
skipWhite(s) ==
    IF s # << >> /\ Head(s) \in WhiteChars THEN skipWhite(Tail(s)) ELSE s

\* The digits at the front of s, read in base 10 on top of acc; the second
\* component counts the digits read.
RECURSIVE readDigits(_, _, _)
readDigits(s, acc, cnt) ==
    IF s # << >> /\ IsDigit(Head(s))
    THEN readDigits(Tail(s), acc * 10 + DigitValue(Head(s)), cnt + 1)
    ELSE <<acc, cnt>>

\* parseInt(string, 10): leading white space, an optional sign, then the
\* longest run of digits; NaN when there is no digit.
parseInt(str) ==
    LET t == skipWhite(str)
        neg == t # << >> /\ Head(t) = 45                    \* "-"
        signed == t # << >> /\ (Head(t) = 45 \/ Head(t) = 43)  \* "-", "+"
        body == IF signed THEN Tail(t) ELSE t
        r == readDigits(body, 0, 0)
    IN  IF r[2] = 0 THEN JsNaN
        ELSE JsNumber(IF neg THEN -r[1] ELSE r[1])

\* Utilities.pick for a first argument that may be undefined.
pick(a, b) == IF a # Undefined THEN a[1] ELSE b

\* Thousandths of a unit.
Milli(n) == n * 1000

\* ------------------------------------------------------------------- state
VARIABLES
    elem,          \* SVGElement attributes: nodeName, the box getBBox()
                   \* returns and whether it is the same object on every
                   \* call, translateX, translateY, rotation, attr('x'),
                   \* attr('y'), element
    isFirefox,     \* H.isFirefox
    styledMode,    \* renderer.styledMode
    canFocus,      \* DOM node -> the node has a focus method
    focusBorder,   \* SVGElement.focusBorder: element -> rectangle or NoOverlay
    rects,         \* the rectangles created so far, by identity
    focusElement,  \* Chart.focusElement
    hcEvents,      \* DOM node -> hcEvents.focusin: Undefined when there is
                   \* no such list, else <<the list of listeners>>
    outline,       \* DOM node -> style.outline
    last           \* the last call made and the effects it had, in order

vars == <<elem, isFirefox, styledMode, canFocus, focusBorder, rects,
          focusElement, hcEvents, outline, last>>

\* The mutable part of the state while a handler runs: the handler's calls
\* thread one of these records, and the action stores the final one.  log
\* lists the effects of the call in order; error is set when a statement
\* throws (a method called on undefined), which ends the handler.
Heap == [bb |-> [e \in Elements |-> elem[e].bb],
         focusBorder |-> focusBorder, rects |-> rects,
         focusElement |-> focusElement, hcEvents |-> hcEvents,
         outline |-> outline, log |-> << >>, error |-> FALSE]

\* One observable effect of a call: "addEvent", "focus" or "outline" on a DOM
\* node; "rect" or "destroy" on a rectangle, of the border of an element.
Ev(kind, on) == [ev |-> kind, on |-> on, of |-> NoElement]
RectEv(kind, on, e) == [ev |-> kind, on |-> on, of |-> e]

\* A TypeError: the statements after it do not run.
TypeError(h) == [h EXCEPT !.error = TRUE]

\* ------------------------------------------------------ collaborator calls
\* SVGElement.destroy of a rectangle: the wrapper loses all its properties.
destroy(rs, id) == [rs EXCEPT ![id] = [alive |-> FALSE]]

\* An attribute that attr() has not been given / has been given the value v.
AttrUnset == [set |-> FALSE, v |-> Undefined]
AttrSet(v) == [set |-> TRUE, v |-> v]

\* renderer.rect(x, y, width, height, r).addClass(..).attr({zIndex}).add(parent)
rect(x, y, width, height, r, e) ==
    [alive |-> TRUE, x |-> x, y |-> y, width |-> width, height |-> height,
     r |-> r, className |-> "highcharts-focus-border", zIndex |-> 99,
     parent |-> elem[e].parentGroup, forElement |-> e,
     stroke |-> AttrUnset, strokeWidth |-> AttrUnset]

\* The listeners of a node: none when hcEvents.focusin is missing.
ListenersOf(l) == IF l = Undefined THEN << >> ELSE l[1]

\* addEvent(node, 'focusin', function () {}): the list hcEvents.focusin is
\* created when missing and gets one more listener.
addEvent(h, n) ==
    [h EXCEPT !.hcEvents[n] = <<Append(ListenersOf(@), "noop")>>,
              !.log = Append(@, Ev("addEvent", n))]

\* --------------------------------------------- SVGElement.removeFocusBorder
\* Variant: the rectangle is dropped without being destroyed.
destroyFocusBorderSkip(h, e) == h

\* this.focusBorder.destroy()
destroyFocusBorder(h, e) ==
    IF h.error THEN h
    ELSE IF h.focusBorder[e] = NoOverlay THEN TypeError(h)
    ELSE [h EXCEPT !.rects = destroy(@, h.focusBorder[e]),
                   !.log = Append(@, RectEv("destroy", h.focusBorder[e], e))]

\* Variant: removing the border of the focus element clears the focus.
deleteFocusBorderAndFocus(h, e) ==
    IF h.error THEN h
    ELSE [h EXCEPT !.focusBorder[e] = NoOverlay,
                   !.focusElement = IF @ = e THEN NoElement ELSE @]

\* delete this.focusBorder
deleteFocusBorder(h, e) ==
    IF h.error THEN h ELSE [h EXCEPT !.focusBorder[e] = NoOverlay]

\* Variant: no test that the element has a border.
removeFocusBorderUnguarded(h, e) ==
    deleteFocusBorder(destroyFocusBorder(h, e), e)

removeFocusBorder(h, e) ==
    IF h.error THEN h
    ELSE IF h.focusBorder[e] # NoOverlay
    THEN deleteFocusBorder(destroyFocusBorder(h, e), e)
    ELSE h

\* ------------------------------------------------ SVGElement.addFocusBorder
\* Variant: a new border is added without removing the one in place.
removeOldBorderSkip(h, e) == h

\* "Allow updating by just adding new border"
removeOldBorder(h, e) ==
    IF h.focusBorder[e] # NoOverlay THEN removeFocusBorder(h, e) ELSE h

\* Variant: margin || 3, which replaces a margin of 0 as well.
padOrDefault(margin) ==
    IF margin # Undefined /\ margin[1] # 0 THEN margin[1] ELSE 3

\* pad = pick(margin, 3)
pad(margin) == pick(margin, 3)

\* bb.x += this.translateX ? this.translateX : 0 (and the same for y)
translate(v, t) == v + (IF t # Undefined /\ t[1] # 0 THEN t[1] ELSE 0)

\* this.element: reading nodeName of a wrapper without a DOM node throws.
hasNode(e) == elem[e].element # NoNode

isText(e) == elem[e].nodeName = "text"

\* !!this.rotation
isRotated(e) == elem[e].rotation # Undefined /\ elem[e].rotation[1] # 0

\* Variant: the two correction factors exchanged.
browserCorrectionSwapped == IF isFirefox THEN 68 ELSE 250

\* The correction factor of the browser, in thousandths (0.25 or 0.068).
browserCorrection == IF isFirefox THEN 250 ELSE 68

\* this.getBBox(): the box of the element as it stands.
getBBox(h, e) == h.bb[e]

\* The box after bb.x += ...; bb.y += ...
translated(bb, e) ==
    [bb EXCEPT !.x = translate(@, elem[e].translateX),
               !.y = translate(@, elem[e].translateY)]

\* The two += write into the object getBBox returned: when every call of
\* getBBox returns the same object, the next call sees the moved box.
writeBBox(h, e) ==
    IF elem[e].sameBBox
    THEN [h EXCEPT !.bb[e] = translated(@, e)]
    ELSE h

\* bb is the box after the translation has been added.
borderPosX(e, bb, p) ==
    IF isText(e)
    THEN Milli(elem[e].x) - bb.width * 500 - Milli(p)
            + (IF isRotated(e) THEN bb.height * 68 ELSE 0)
    ELSE Milli(bb.x - p)

borderPosY(e, bb, p) ==
    IF isText(e)
    THEN Milli(elem[e].y) - bb.height * 500 - Milli(p)
            + (IF isRotated(e) THEN 0
               ELSE (-bb.height) * browserCorrection)
    ELSE Milli(bb.y - p)

borderWidth(bb, p) == Milli(bb.width + 2 * p)

borderHeight(bb, p) == Milli(bb.height + 2 * p)

\* parseInt((style && style.borderRadius || 0).toString(), 10)
borderRadius(style) ==
    LET v == IF style.defined /\ truthy(style.borderRadius)
             THEN style.borderRadius ELSE JsNumber(0)
    IN  parseInt(toString(v))

\* Variant: the presentational attributes are set in styled mode too.
strokeAttrsAlways(r, style) ==
    [r EXCEPT
        !.stroke = AttrSet(IF style.defined THEN style.stroke
                           ELSE Undefined),
        !.strokeWidth = AttrSet(IF style.defined THEN style.strokeWidth
                                ELSE Undefined)]

\* if (!this.renderer.styledMode) this.focusBorder.attr({stroke, stroke-width})
strokeAttrs(r, style) ==
    IF ~styledMode
    THEN [r EXCEPT
            !.stroke = AttrSet(IF style.defined THEN style.stroke
                               ELSE Undefined),
            !.strokeWidth = AttrSet(IF style.defined THEN style.strokeWidth
                                    ELSE Undefined)]
    ELSE r

\* this.focusBorder = this.renderer.rect(...) and the attributes set on it
newFocusBorder(h, e, margin, style) ==
    LET bb == translated(getBBox(h, e), e)
        p == pad(margin)
        id == Len(h.rects) + 1
        r == rect(borderPosX(e, bb, p), borderPosY(e, bb, p),
                  borderWidth(bb, p), borderHeight(bb, p),
                  borderRadius(style), e)
    IN  IF h.error THEN h
        ELSE IF ~hasNode(e) THEN TypeError(writeBBox(h, e))
        ELSE [writeBBox(h, e) EXCEPT
                !.rects = Append(@, strokeAttrs(r, style)),
                !.focusBorder[e] = id,
                !.log = Append(@, RectEv("rect", id, e))]

\* Variant: the element is also recorded as the focus element of the chart.
addFocusBorderAndRecord(h, e, margin, style) ==
    LET g == newFocusBorder(removeOldBorder(h, e), e, margin, style)
    IN  IF g.error THEN g ELSE [g EXCEPT !.focusElement = e]

addFocusBorder(h, e, margin, style) ==
    newFocusBorder(removeOldBorder(h, e), e, margin, style)

\* ------------------------------------------------ Chart.setFocusToElement
\* Variant: the focusElement argument is ignored.
browserFocusElementOwn(e, focusEl) == elem[e].element

\* browserFocusElement = focusElement || svgElement.element
browserFocusElement(e, focusEl) ==
    IF focusEl # NoNode THEN focusEl ELSE elem[e].element

\* Variant: the candidate is not asked whether it has a focus method.
focusableIfPresent(n) == n # NoNode

\* browserFocusElement && browserFocusElement.focus
focusable(n) == n # NoNode /\ canFocus[n]

\* Variant: a listener is added on every call.
ensureFocusinListenerAlways(h, n) == addEvent(h, n)

\* "If there is no focusin-listener, add one": the test is on the list
\* hcEvents.focusin, and an empty list is truthy.
ensureFocusinListener(h, n) ==
    IF h.hcEvents[n] = Undefined THEN addEvent(h, n) ELSE h

\* browserFocusElement.focus()
focus(h, n) == [h EXCEPT !.log = Append(@, Ev("focus", n))]

\* Variant: the outline is hidden whatever the option says.
hideFocusRingAlways(h, n, opts) ==
    [h EXCEPT !.outline[n] = "none", !.log = Append(@, Ev("outline", n))]

\* "Hide default focus ring"
hideFocusRing(h, n, opts) ==
    IF opts.hideBrowserFocusOutline
    THEN [h EXCEPT !.outline[n] = "none", !.log = Append(@, Ev("outline", n))]
    ELSE h

\* "Set browser focus if possible"
setBrowserFocus(h, n, opts) ==
    IF focusable(n)
    THEN hideFocusRing(focus(ensureFocusinListener(h, n), n), n, opts)
    ELSE h

\* The style object handed to addFocusBorder.
borderStyle(opts) ==
    [defined |-> TRUE, stroke |-> opts.style.color,
     strokeWidth |-> opts.style.lineWidth,
     borderRadius |-> opts.style.borderRadius]

\* Variant: the border of the previous focus element is left in place.
removeOldFocusSkip(h) == h

\* "Remove old focus border"
removeOldFocus(h) ==
    IF h.focusElement # NoElement
    THEN removeFocusBorder(h, h.focusElement) ELSE h

\* Variant: the chart does not record the element.
recordFocusElementSkip(h, e) == h

\* this.focusElement = svgElement
recordFocusElement(h, e) ==
    IF h.error THEN h ELSE [h EXCEPT !.focusElement = e]

\* Variant: the old border is removed even when the border is disabled.
drawFocusBorderRemoveAlways(h, e, opts) ==
    IF opts.enabled
    THEN recordFocusElement(
            addFocusBorder(removeOldFocus(h), e, opts.margin,
                           borderStyle(opts)), e)
    ELSE removeOldFocus(h)

\* Variant: the new border is added before the old one is removed.
drawFocusBorderAddFirst(h, e, opts) ==
    IF opts.enabled
    THEN recordFocusElement(
            removeOldFocus(addFocusBorder(h, e, opts.margin,
                                          borderStyle(opts))), e)
    ELSE h

\* if (focusBorderOptions.enabled) { ... }
drawFocusBorder(h, e, opts) ==
    IF opts.enabled
    THEN recordFocusElement(
            addFocusBorder(removeOldFocus(h), e, opts.margin,
                           borderStyle(opts)), e)
    ELSE h

\* Variant: nothing is done when the focus border is disabled.
setFocusToElementIfEnabled(h, e, focusEl, opts) ==
    IF opts.enabled
    THEN drawFocusBorder(
            setBrowserFocus(h, browserFocusElement(e, focusEl), opts), e, opts)
    ELSE h

setFocusToElement(h, e, focusEl, opts) ==
    drawFocusBorder(setBrowserFocus(h, browserFocusElement(e, focusEl), opts),
                    e, opts)

\* ------------------------------------------------------------------ inputs
BBox(x, y, w, h) == [x |-> x, y |-> y, width |-> w, height |-> h]

SVGElement(name, bb, tx, ty, rot, x, y, e) ==
    [nodeName |-> name, bb |-> bb, sameBBox |-> FALSE, translateX |-> tx,
     translateY |-> ty, rotation |-> rot, x |-> x, y |-> y, element |-> e,
     parentGroup |-> 1]

\* The elements of the chart: a translated shape, a text label, and shapes
\* with an empty bounding box.
ChartElement(e) ==
    CASE e = 1 -> SVGElement("rect", BBox(10, 20, 30, 5), <<5>>, Undefined,
                             Undefined, 10, 20, e)
      [] e = 2 -> SVGElement("text", BBox(80, 42, 40, 10), <<0>>, <<0>>,
                             Undefined, 100, 50, e)
      [] OTHER -> SVGElement("path", BBox(0, 0, 0, 0), Undefined, Undefined,
                             Undefined, 0, 0, e)

\* The element that has no DOM node in InitDetached.
DetachedElement == NumElements

\* The element addFocusBorder is applied to when its geometry is examined.
GeomElement == 1

\* Sizes of a bounding box: empty, and the sizes of the two examples.
BoxSizes == {<<0, 0>>, <<30, 5>>, <<40, 10>>}

GeomElements ==
    { [SVGElement(name, BBox(bx, 20, wh[1], wh[2]), tx, ty, rot, 100, 50,
                  GeomElement) EXCEPT !.sameBBox = same] :
        name \in {"text", "rect"}, bx \in {0, 10}, wh \in BoxSizes,
        tx \in {Undefined, <<0>>, <<5>>}, ty \in {Undefined, <<-2>>},
        rot \in {Undefined, <<0>>, <<90>>}, same \in BOOLEAN }

Margins == {Undefined, <<0>>, <<3>>}

CSSObject(stroke, strokeWidth, radius) ==
    [defined |-> TRUE, stroke |-> stroke, strokeWidth |-> strokeWidth,
     borderRadius |-> radius]

\* addFocusBorder called without a style.
NoStyle ==
    [defined |-> FALSE, stroke |-> Undefined, strokeWidth |-> Undefined,
     borderRadius |-> JsUndefined]

Styles ==
    {NoStyle} \cup
    { CSSObject(<<"#335cad">>, <<2>>, r) : r \in {JsUndefined, JsNumber(3)} }

\* options.accessibility.keyboardNavigation.focusBorder
Options(en, hide, m, r) ==
    [enabled |-> en, hideBrowserFocusOutline |-> hide, margin |-> m,
     style |-> [color |-> <<"#335cad">>, lineWidth |-> <<2>>,
                borderRadius |-> r]]

FocusBorderOptions ==
    { Options(en, hide, Undefined, JsNumber(3)) :
        en \in BOOLEAN, hide \in BOOLEAN }

EnabledOptions == { o \in FocusBorderOptions : o.enabled }

\* Values of style.stroke / style.color and style.strokeWidth / lineWidth.
Colors == {Undefined, <<"red">>}

LineWidths == {Undefined, <<2>>}

\* Values of style.borderRadius: absent, numbers, NaN and the strings "",
\* "0", "5px", " \t\u000B7" (space, tab, vertical tab, then 7),
\* "\u00A0\u2028-3px" (no-break space, line separator, then -3px), "2.5",
\* "abc" and "px5".
Radii ==
    {JsUndefined, JsNaN, JsNumber(0), JsNumber(3), JsNumber(12),
     JsString(<< >>), JsString(<<48>>), JsString(<<53, 112, 120>>),
     JsString(<<32, 9, 11, 55>>), JsString(<<160, 8232, 45, 51, 112, 120>>),
     JsString(<<50, 46, 53>>), JsString(<<97, 98, 99>>),
     JsString(<<112, 120, 53>>)}

\* Style arguments of addFocusBorder, every field varied.
StyleArgs ==
    {NoStyle} \cup
    { CSSObject(c, w, r) : c \in Colors, w \in LineWidths, r \in Radii }

\* focusBorder options with every field of focusBorder.style varied.
StyleOptions ==
    { [Options(TRUE, FALSE, Undefined, r) EXCEPT
          !.style.color = c, !.style.lineWidth = w] :
        c \in Colors, w \in LineWidths, r \in Radii }

\* ----------------------------------------------------------- initial state
NoCall ==
    [op |-> "none", el |-> NoElement, focusEl |-> NoNode, enabled |-> FALSE,
     hide |-> FALSE, margin |-> Undefined, style |-> NoStyle,
     color |-> Undefined, lineWidth |-> Undefined,
     bb |-> BBox(0, 0, 0, 0), log |-> << >>, error |-> FALSE]

\* A chart that has just been created: no border, no focus element.
InitChart ==
    /\ focusBorder = [e \in Elements |-> NoOverlay]
    /\ rects = << >>
    /\ focusElement = NoElement
    /\ outline = [n \in Nodes |-> ""]
    /\ last = NoCall

\* The pages a chart runs in: the browser, the rendering mode, whether DOM
\* nodes have a focus method, whether other code has already registered
\* focusin listeners through addEvent, and whether getBBox returns the same
\* object on every call.
Environments ==
    { [isFirefox |-> FALSE, styledMode |-> FALSE, canFocus |-> TRUE,
       listeners |-> Undefined, sameBBox |-> FALSE],
      [isFirefox |-> TRUE, styledMode |-> FALSE, canFocus |-> TRUE,
       listeners |-> << <<"user">> >>, sameBBox |-> TRUE],
      [isFirefox |-> FALSE, styledMode |-> TRUE, canFocus |-> FALSE,
       listeners |-> Undefined, sameBBox |-> FALSE] }

Init ==
    /\ \E env \in Environments :
        /\ elem = [e \in Elements |->
                     [ChartElement(e) EXCEPT !.sameBBox = env.sameBBox]]
        /\ isFirefox = env.isFirefox
        /\ styledMode = env.styledMode
        /\ canFocus = [n \in Nodes |-> env.canFocus]
        /\ hcEvents = [n \in Nodes |-> env.listeners]
    /\ InitChart

\* The states of hcEvents.focusin other code can leave on a node: no list,
\* a list whose listeners have all been removed, a list with a listener.
ListenerLists == {Undefined, << << >> >>, << <<"user">> >>}

\* Every page: SVG nodes with or without a focus method, the HTML node with
\* or without one, and the same state of hcEvents.focusin on every
\* focusable node.
InitFocus ==
    /\ elem = [e \in Elements |-> ChartElement(e)]
    /\ isFirefox = FALSE
    /\ styledMode = FALSE
    /\ \E svg \in BOOLEAN, html \in BOOLEAN :
        canFocus = [n \in Nodes |-> IF n = ProxyNode THEN html ELSE svg]
    /\ \E ls \in ListenerLists :
        hcEvents = [n \in Nodes |-> IF canFocus[n] THEN ls ELSE Undefined]
    /\ InitChart

\* Every geometry of one element, in both browsers.
InitGeom ==
    /\ \E g \in GeomElements :
        elem = [e \in Elements |->
                    IF e = GeomElement THEN g ELSE ChartElement(e)]
    /\ isFirefox \in BOOLEAN
    /\ styledMode = FALSE
    /\ canFocus = [n \in Nodes |-> TRUE]
    /\ hcEvents = [n \in Nodes |-> Undefined]
    /\ InitChart

\* ----------------------------------------------------------------- actions
InitStyle ==
    /\ elem = [e \in Elements |-> ChartElement(e)]
    /\ isFirefox = FALSE
    /\ styledMode \in BOOLEAN
    /\ canFocus = [n \in Nodes |-> TRUE]
    /\ InitChart
    /\ hcEvents = [n \in Nodes |-> Undefined]

\* A chart one of whose elements has lost its DOM node (a destroyed
\* wrapper); DOM nodes with or without a focus method.
InitDetached ==
    /\ elem = [e \in Elements |->
                 IF e = DetachedElement
                 THEN [ChartElement(e) EXCEPT !.element = NoNode]
                 ELSE ChartElement(e)]
    /\ isFirefox = FALSE
    /\ styledMode = FALSE
    /\ \E svg \in BOOLEAN, html \in BOOLEAN :
        canFocus = [n \in Nodes |-> IF n \in ExtraNodes THEN html ELSE svg]
    /\ InitChart
    /\ hcEvents = [n \in Nodes |-> Undefined]

Static == UNCHANGED <<isFirefox, styledMode, canFocus>>

Store(h) ==
    /\ Len(h.rects) <= MaxOverlays
    /\ elem' = [e \in Elements |-> [elem[e] EXCEPT !.bb = h.bb[e]]]
    /\ focusBorder' = h.focusBorder
    /\ rects' = h.rects
    /\ focusElement' = h.focusElement
    /\ hcEvents' = h.hcEvents
    /\ outline' = h.outline
    /\ Static

CallAddFocusBorder(es, ms, ss) ==
    \E e \in es, m \in ms, s \in ss :
        LET h == addFocusBorder(Heap, e, m, s)
        IN  /\ Store(h)
            /\ last' = [op |-> "add", el |-> e, focusEl |-> NoNode,
                        enabled |-> FALSE, hide |-> FALSE, margin |-> m,
                        style |-> s, color |-> Undefined,
                        lineWidth |-> Undefined, bb |-> elem[e].bb,
                        log |-> h.log, error |-> h.error]

CallRemoveFocusBorder(es) ==
    \E e \in es :
        LET h == removeFocusBorder(Heap, e)
        IN  /\ Store(h)
            /\ last' = [op |-> "remove", el |-> e, focusEl |-> NoNode,
                        enabled |-> FALSE, hide |-> FALSE,
                        margin |-> Undefined, style |-> NoStyle,
                        color |-> Undefined, lineWidth |-> Undefined,
                        bb |-> elem[e].bb, log |-> h.log,
                        error |-> h.error]

CallSetFocusOn(es, os) ==
    \E e \in es, f \in {NoNode} \cup ExtraNodes, o \in os :
        LET h == setFocusToElement(Heap, e, f, o)
        IN  /\ Store(h)
            /\ last' = [op |-> "setFocus", el |-> e, focusEl |-> f,
                        enabled |-> o.enabled,
                        hide |-> o.hideBrowserFocusOutline,
                        margin |-> o.margin, style |-> borderStyle(o),
                        color |-> o.style.color,
                        lineWidth |-> o.style.lineWidth,
                        bb |-> elem[e].bb, log |-> h.log,
                        error |-> h.error]

CallSetFocusToElement(os) == CallSetFocusOn(Elements, os)

\* Any caller: the three operations in any order (the browser outline is
\* left alone here; SpecFocus covers hideBrowserFocusOutline).
Next ==
    \/ CallAddFocusBorder(Elements, {Undefined}, {NoStyle})
    \/ CallRemoveFocusBorder(Elements)
    \/ CallSetFocusToElement({ o \in FocusBorderOptions :
                                ~o.hideBrowserFocusOutline })

Spec == Init /\ [][Next]_vars

\* A chart whose borders are drawn through setFocusToElement only.
NextFocus == CallSetFocusToElement(FocusBorderOptions)

SpecFocus == InitFocus /\ [][NextFocus]_vars

\* The same, with focusBorder.enabled true on every call.
NextEnabled == CallSetFocusToElement(EnabledOptions)

SpecEnabled == InitFocus /\ [][NextEnabled]_vars

\* addFocusBorder and removeFocusBorder applied to one element.
NextGeom ==
    \/ CallAddFocusBorder({GeomElement}, Margins, Styles)
    \/ CallRemoveFocusBorder({GeomElement})

SpecGeom == InitGeom /\ [][NextGeom]_vars

\* setFocusToElement on a chart with an element that has no DOM node.
NextDetached == CallSetFocusToElement(FocusBorderOptions)

SpecDetached == InitDetached /\ [][NextDetached]_vars

\* One element bordered with every style, in styled mode and out of it.
NextStyle ==
    \/ CallAddFocusBorder({GeomElement}, {Undefined}, StyleArgs)
    \/ CallSetFocusOn({GeomElement}, StyleOptions)

SpecStyle == InitStyle /\ [][NextStyle]_vars

\* ============================================================== properties
\* An element owns an overlay when its focusBorder slot is set.
Owns(e) == focusBorder[e] # NoOverlay

\* The rectangles that have been created and not destroyed.
LiveRects == { i \in 1 .. Len(rects) : rects[i].alive }

\* The live rectangles that were drawn for element e.
LiveRectsOf(e) == { i \in LiveRects : rects[i].forElement = e }

\* The call recorded in last logged the effect kind on the node or rectangle.
Logged(kind, on) ==
    \E i \in 1 .. Len(last.log) :
        last.log[i].ev = kind /\ last.log[i].on = on

\* The DOM node a setFocusToElement call with these arguments is to focus.
Candidate(e, f) == IF f = NoNode THEN elem[e].element ELSE f

\* C1: on a chart bordered only by setFocusToElement calls that all have
\* focusBorder.enabled true, after every call exactly one element owns an
\* overlay, it is the target of the last call and it has exactly one live
\* rectangle; after setFocusToElement(A) then setFocusToElement(B), A # B,
\* A owns no overlay and has no live rectangle.
SingleActiveBorder ==
    /\ [](last.op = "setFocus" =>
            /\ { e \in Elements : Owns(e) } = {last.el}
            /\ LiveRects = {focusBorder[last.el]}
            /\ LiveRectsOf(last.el) = {focusBorder[last.el]})
    /\ [][(last.op = "setFocus" /\ last'.op = "setFocus"
            /\ last.el # last'.el) =>
                (/\ focusBorder'[last.el] = NoOverlay
                 /\ \A i \in 1 .. Len(rects') :
                        rects'[i].alive => rects'[i].forElement = last'.el
                 /\ focusBorder'[last'.el] # NoOverlay)]_vars

\* C1 witness: the last call moved the border from another element: it
\* destroyed a rectangle of an element other than its target.
SingleActiveBorderWitness ==
    /\ last.op = "setFocus"
    /\ Owns(last.el)
    /\ \E i \in 1 .. Len(last.log) :
        /\ last.log[i].ev = "destroy"
        /\ last.log[i].of # last.el
        /\ ~rects[last.log[i].on].alive

\* C2: each element has at most one live rectangle, the live rectangles are
\* exactly those the focusBorder slots refer to, and each slot refers to a
\* rectangle of its own element: a replaced or removed rectangle is destroyed.
OneOverlayPerElement ==
    /\ \A e \in Elements : Cardinality(LiveRectsOf(e)) <= 1
    /\ \A i \in LiveRects : focusBorder[rects[i].forElement] = i
    /\ \A e \in Elements :
        Owns(e) => /\ focusBorder[e] \in LiveRects
                   /\ rects[focusBorder[e]].forElement = e

\* C2 witness: a rectangle was replaced by addFocusBorder on an element that
\* already had one, while another element also owns a rectangle.
OneOverlayPerElementWitness ==
    /\ last.op = "add"
    /\ Len(last.log) = 2
    /\ last.log[1].ev = "destroy"
    /\ last.log[2].ev = "rect"
    /\ \E e \in Elements : e # last.el /\ Owns(e)

\* The origin, size and corner radius of a live rectangle.
Geometry(r) == <<r.x, r.y, r.width, r.height, r.r>>

\* C3: addFocusBorder called twice in a row on the same element with the same
\* margin and style leaves that element with exactly one live rectangle, whose
\* origin, size and corner radius are those the first call produced.
IdempotentAdd ==
    [][(/\ last.op = "add" /\ last'.op = "add"
        /\ last'.el = last.el
        /\ last'.margin = last.margin
        /\ last'.style = last.style) =>
            (/\ focusBorder'[last.el] # NoOverlay
             /\ { i \in 1 .. Len(rects') :
                    rects'[i].alive /\ rects'[i].forElement = last.el }
                    = {focusBorder'[last.el]}
             /\ Geometry(rects'[focusBorder'[last.el]])
                    = Geometry(rects[focusBorder[last.el]]))]_vars

\* C3 witness: the second of two addFocusBorder calls has replaced the
\* rectangle of the first (the first two rectangles are of the same element,
\* the first destroyed by the call that drew the second).
IdempotentAddWitness ==
    /\ last.op = "add"
    /\ Len(rects) = 2
    /\ last.log = <<RectEv("destroy", 1, last.el), RectEv("rect", 2, last.el)>>
    /\ last.margin = <<0>>
    /\ last.style.defined

\* C4: after removeFocusBorder the element owns no overlay, the rectangle it
\* owned is destroyed and no error is raised; removeFocusBorder on an element
\* that owns no overlay changes nothing and raises no error.
CleanRemove ==
    /\ [](last.op = "remove" =>
            /\ ~Owns(last.el)
            /\ LiveRectsOf(last.el) = {}
            /\ ~last.error)
    /\ [][(last'.op = "remove" /\ Owns(last'.el)) =>
            (/\ ~rects'[focusBorder[last'.el]].alive
             /\ last'.log
                    = <<RectEv("destroy", focusBorder[last'.el], last'.el)>>)]_vars
    /\ [][(last'.op = "remove" /\ ~Owns(last'.el)) =>
            (/\ UNCHANGED <<focusBorder, rects, focusElement, hcEvents,
                            outline>>
             /\ last'.log = << >>
             /\ ~last'.error)]_vars

\* C4 witness: removeFocusBorder has been called on an element that owned
\* no overlay, after a rectangle had been drawn and destroyed, while another
\* element owns one.
CleanRemoveWitness ==
    /\ last.op = "remove"
    /\ last.log = << >>
    /\ \E i \in 1 .. Len(rects) : ~rects[i].alive
    /\ \E e \in Elements : Owns(e)

\* C5: a setFocusToElement call with focusBorder.enabled false creates no
\* rectangle, and it still calls focus() on the DOM focus candidate whenever
\* that candidate has a focus method.
DisabledBorderSkip ==
    /\ [](last.op = "setFocus" /\ ~last.enabled =>
            /\ \A i \in 1 .. Len(last.log) : last.log[i].ev # "rect"
            /\ canFocus[Candidate(last.el, last.focusEl)] =>
                    Logged("focus", Candidate(last.el, last.focusEl)))
    /\ [][(last'.op = "setFocus" /\ ~last'.enabled) =>
            rects' = rects]_vars

\* C5 witness: a call with enabled false has focused its candidate.
DisabledBorderSkipWitness ==
    /\ last.op = "setFocus"
    /\ ~last.enabled
    /\ Logged("focus", Candidate(last.el, last.focusEl))

\* C6 as stated: the chart's focus element is empty at creation and, after
\* every setFocusToElement(E) call, it is E.
ActiveFocusUpdatedOnEveryCall ==
    /\ last.op = "none" => focusElement = NoElement
    /\ last.op = "setFocus" => focusElement = last.el

\* C6 (amended): the chart's focus element is empty at creation; after every
\* setFocusToElement(E) call made with focusBorder.enabled true it is E, and
\* a call made with focusBorder.enabled false leaves it unchanged.
ActiveFocusUpdatedWhenEnabled ==
    /\ [](last.op = "none" => focusElement = NoElement)
    /\ [](last.op = "setFocus" /\ last.enabled => focusElement = last.el)
    /\ [][(last'.op = "setFocus" /\ ~last'.enabled) =>
            focusElement' = focusElement]_vars

\* C6 witness: an enabled call has replaced the recorded element by its
\* target, after the border had been on another element.
ActiveFocusUpdatedWitness ==
    /\ last.op = "setFocus"
    /\ last.enabled
    /\ focusElement = last.el
    /\ \E i \in 1 .. Len(last.log) :
        last.log[i].ev = "destroy" /\ last.log[i].of # last.el

\* The no-op listeners this module has registered in a listener list.
NoopListeners(ls) == { i \in 1 .. Len(ls) : ls[i] = "noop" }

\* C7: a setFocusToElement call whose candidate node has a focus method and no
\* focusin listener registers exactly one no-op listener on it, before it
\* calls focus(); on a node that has a focusin listener it registers none; no
\* other node's listeners change.  Hence no node ever carries more than one
\* no-op listener.
FocusinWorkaround ==
    /\ [][last'.op = "setFocus" =>
            LET n == Candidate(last'.el, last'.focusEl)
                log == last'.log
                adds == { i \in 1 .. Len(log) : log[i].ev = "addEvent" }
            IN  /\ \A m \in Nodes \ {n} : hcEvents'[m] = hcEvents[m]
                /\ canFocus[n] /\ ListenersOf(hcEvents[n]) = << >> =>
                        /\ ListenersOf(hcEvents'[n]) = <<"noop">>
                        /\ \E i, j \in 1 .. Len(log) :
                            /\ adds = {i}
                            /\ i < j
                            /\ log[i] = Ev("addEvent", n)
                            /\ log[j] = Ev("focus", n)
                /\ ~(canFocus[n] /\ ListenersOf(hcEvents[n]) = << >>) =>
                        /\ hcEvents'[n] = hcEvents[n]
                        /\ adds = {}]_vars
    /\ [](\A n \in Nodes :
            Cardinality(NoopListeners(ListenersOf(hcEvents[n]))) <= 1)

\* The margin addFocusBorder uses for the margin argument m.
EffectiveMargin(m) == IF m = Undefined THEN 3 ELSE m[1]

\* A translation offset, 0 when absent.
Offset(t) == IF t = Undefined THEN 0 ELSE t[1]

\* The effects of a call on DOM nodes.
DomEffects == {"addEvent", "focus", "outline"}

\* C8: when setFocusToElement is given a focusElement other than the target's
\* own node, the listener, the focus() call and the outline change are made on
\* focusElement and the own node is left alone, while the rectangle is drawn
\* around the target element, which becomes the chart's focus element; without
\* a focusElement the own node is the one focused (when it has a focus method).
FocusTargetSelection ==
    [][last'.op = "setFocus" =>
        LET e == last'.el
            f == last'.focusEl
            own == elem[e].element
            log == last'.log
            n == IF f # NoNode THEN f ELSE own
        IN  /\ \A i \in 1 .. Len(log) :
                    log[i].ev \in DomEffects => log[i].on = n
            /\ \A m \in Nodes \ {n} :
                    hcEvents'[m] = hcEvents[m] /\ outline'[m] = outline[m]
            /\ canFocus[n] =>
                    /\ \E i \in 1 .. Len(log) : log[i] = Ev("focus", n)
                    /\ hcEvents'[n] # Undefined
                    /\ last'.hide => outline'[n] = "none"
            /\ last'.enabled =>
                    /\ focusElement' = e
                    /\ focusBorder'[e] # NoOverlay
                    /\ rects'[focusBorder'[e]].forElement = e
                    /\ rects'[focusBorder'[e]].width
                            = 1000 * (elem[e].bb.width
                                        + 2 * EffectiveMargin(last'.margin))]_vars

\* C8 witness: a call with a focusable focusElement distinct from the
\* target's own (focusable) node has focused it, hidden its outline and drawn
\* the border of the target.
FocusTargetSelectionWitness ==
    /\ last.op = "setFocus"
    /\ last.focusEl \in ExtraNodes
    /\ canFocus[elem[last.el].element]
    /\ Logged("addEvent", last.focusEl)
    /\ Logged("focus", last.focusEl)
    /\ outline[last.focusEl] = "none"
    /\ outline[elem[last.el].element] = ""
    /\ last.enabled
    /\ focusElement = last.el

\* C9: addFocusBorder on a non-text element with bounding box (x, y, w, h),
\* translation (tx, ty) and margin m (3 when absent, 0 kept) creates a
\* rectangle with origin (x + tx - m, y + ty - m) and size (w + 2m, h + 2m),
\* also when w or h is 0; box (10, 20, 30, 5), tx = 5, ty absent, m = 3 gives
\* origin (12, 17) and size (36, 11).
NonTextGeometry ==
    (last.op = "add" /\ elem[last.el].nodeName # "text") =>
        LET g == elem[last.el]
            m == EffectiveMargin(last.margin)
        IN  /\ Owns(last.el)
            /\ rects[focusBorder[last.el]].alive
            /\ LET r == rects[focusBorder[last.el]]
               IN  /\ r.x = 1000 * (last.bb.x + Offset(g.translateX) - m)
                   /\ r.y = 1000 * (last.bb.y + Offset(g.translateY) - m)
                   /\ r.width = 1000 * (last.bb.width + 2 * m)
                   /\ r.height = 1000 * (last.bb.height + 2 * m)
                   /\ (/\ last.bb = BBox(10, 20, 30, 5)
                       /\ g.translateX = <<5>>
                       /\ g.translateY = Undefined
                       /\ m = 3) =>
                            <<r.x, r.y, r.width, r.height>>
                                = <<12000, 17000, 36000, 11000>>

\* C9 witness: a border drawn with an explicit margin of 0 around a non-text
\* element whose bounding box is empty.
NonTextGeometryWitness ==
    /\ last.op = "add"
    /\ elem[last.el].nodeName = "rect"
    /\ last.bb.width = 0
    /\ last.bb.height = 0
    /\ elem[last.el].translateX = <<5>>
    /\ last.margin = <<0>>
    /\ Owns(last.el)

\* C10: addFocusBorder on a text element with attributes x, y, bounding box
\* size (w, h) and margin m creates a rectangle of size (w + 2m, h + 2m) at
\* x - w/2 - m (+ 0.068 h when rotated), y - h/2 - m (- 0.25 h on Firefox,
\* - 0.068 h elsewhere, when not rotated), whatever the bounding box origin
\* and the translation; w = 40, h = 10, x = 100, y = 50, m = 3, not rotated
\* gives (77, 41.32), and (77, 39.5) on Firefox.
TextGeometry ==
    (last.op = "add" /\ elem[last.el].nodeName = "text") =>
        LET g == elem[last.el]
            m == EffectiveMargin(last.margin)
            rotated == g.rotation # Undefined /\ g.rotation[1] # 0
            r == rects[focusBorder[last.el]]
        IN  /\ Owns(last.el)
            /\ r.x = 1000 * g.x - 500 * last.bb.width - 1000 * m
                        + (IF rotated THEN 68 * last.bb.height ELSE 0)
            /\ r.y = 1000 * g.y - 500 * last.bb.height - 1000 * m
                        + (IF rotated THEN 0
                           ELSE IF isFirefox THEN -(250 * last.bb.height)
                           ELSE -(68 * last.bb.height))
            /\ r.width = 1000 * (last.bb.width + 2 * m)
            /\ r.height = 1000 * (last.bb.height + 2 * m)
            /\ (/\ last.bb.width = 40 /\ last.bb.height = 10
                /\ g.x = 100 /\ g.y = 50
                /\ m = 3 /\ ~rotated) =>
                    <<r.x, r.y>> = <<77000, IF isFirefox THEN 39500
                                            ELSE 41320>>

\* C10 witness: the border of the example text element on Firefox, its
\* bounding box origin and translation both set.
TextGeometryWitness ==
    /\ last.op = "add"
    /\ isFirefox
    /\ elem[last.el].nodeName = "text"
    /\ last.bb = BBox(10, 20, 40, 10)
    /\ elem[last.el].translateX = <<5>>
    /\ elem[last.el].rotation = <<0>>
    /\ last.margin = <<3>>
    /\ Owns(last.el)
    /\ rects[focusBorder[last.el]].y = 39500


\* The rectangle created by the last call, if that call created one.
Created(e) == Owns(e) /\ Logged("rect", focusBorder[e])

\* C11: styled-mode suppression. In styled mode the overlay created by
\* addFocusBorder gets no stroke and no stroke-width attribute whatever the
\* style says; otherwise both are set from style.stroke and
\* style.strokeWidth, which setFocusToElement fills from
\* focusBorder.style.color and focusBorder.style.lineWidth.
StyledModeSuppression ==
    \A e \in Elements :
        Created(e) =>
            LET r == rects[focusBorder[e]]
            IN  IF styledMode
                THEN r.stroke = AttrUnset /\ r.strokeWidth = AttrUnset
                ELSE /\ r.stroke = AttrSet(last.style.stroke)
                     /\ r.strokeWidth = AttrSet(last.style.strokeWidth)
                     /\ last.op = "setFocus" =>
                            /\ r.stroke = AttrSet(last.color)
                            /\ r.strokeWidth = AttrSet(last.lineWidth)

\* A border drawn in styled mode by setFocusToElement with a colour and a
\* line width configured.
StyledModeSuppressionWitness ==
    /\ styledMode
    /\ last.op = "setFocus"
    /\ last.color = <<"red">>
    /\ last.lineWidth = <<2>>
    /\ Created(last.el)


\* The effects of the last call on rectangles of the border of e that are
\* among the first k effects of the call.
RectEvents(log, e, k) ==
    { i \in 1 .. k : log[i].ev \in {"rect", "destroy"} /\ log[i].of = e }

\* The elements that own a border after the first k effects of a call that
\* started with the borders own and has the effects log.
OwnersAt(own, log, k) ==
    { e \in Elements :
        IF RectEvents(log, e, k) = {}
        THEN own[e] # NoOverlay
        ELSE \E i \in RectEvents(log, e, k) :
                /\ \A j \in RectEvents(log, e, k) : j <= i
                /\ log[i].ev = "rect" }

\* C12: remove-then-add ordering. Within one setFocusToElement call made
\* while the active focus element has a border, that border is destroyed
\* before the new rectangle is created, so at no point of the call, and not
\* after it, do two different elements own a border (none may).
RemoveThenAdd ==
    [][(last'.op = "setFocus" /\ last'.enabled) =>
         /\ \A j \in 1 .. Len(last'.log) :
                (last'.log[j].ev = "rect" /\ focusElement # NoElement
                   /\ Owns(focusElement)) =>
                    \E i \in 1 .. (j - 1) :
                        /\ last'.log[i].ev = "destroy"
                        /\ last'.log[i].on = focusBorder[focusElement]
                        /\ last'.log[i].of = focusElement
         /\ \A k \in 0 .. Len(last'.log) :
                Cardinality(OwnersAt(focusBorder, last'.log, k)) <= 1
         /\ OwnersAt(focusBorder, last'.log, Len(last'.log))
                = { e \in Elements : Owns(e)' }]_vars

\* The focus has moved from a bordered element to another one: the old
\* rectangle was destroyed, then the new one created.
RemoveThenAddWitness ==
    /\ last.op = "setFocus"
    /\ last.enabled
    /\ \E i, j \in 1 .. Len(last.log) :
        /\ i < j
        /\ last.log[i].ev = "destroy"
        /\ last.log[i].of # last.el
        /\ last.log[j].ev = "rect"
        /\ last.log[j].of = last.el


\* style.borderRadius read as an integer, as parseInt reads its text.
ParsedRadius(style) == parseInt(toString(style.borderRadius))

\* The style is absent, or its borderRadius is absent or not numeric.
RadiusMissing(style) ==
    \/ ~style.defined
    \/ style.borderRadius = JsUndefined
    \/ ParsedRadius(style) = JsNaN

\* C13: corner radius parsing. The corner radius of the overlay is
\* style.borderRadius parsed as an integer, and it is 0 whenever the style
\* is absent, style.borderRadius is absent, or style.borderRadius is not
\* numeric.
CornerRadiusParsed ==
    \A e \in Elements :
        Created(e) =>
            rects[focusBorder[e]].r =
                IF RadiusMissing(last.style) THEN JsNumber(0)
                ELSE ParsedRadius(last.style)


\* The DOM focus candidate of the call is missing or has no focus method.
NotFocusable(e, f) == Candidate(e, f) = NoNode \/ ~canFocus[Candidate(e, f)]

\* The call whose effects are log did nothing to the DOM.
NoDomEffects(log) == \A i \in 1 .. Len(log) : log[i].ev \notin DomEffects

\* C14 as stated: whenever the DOM focus candidate is missing or cannot
\* take focus, setFocusToElement adds no listener, does not focus, leaves
\* the outline alone, raises no error, and with focusBorder.enabled true
\* removes the previous border, adds the new one and records the target.
NonFocusableAlwaysProceeds ==
    [][(last'.op = "setFocus" /\ NotFocusable(last'.el, last'.focusEl)) =>
         /\ NoDomEffects(last'.log)
         /\ hcEvents' = hcEvents
         /\ outline' = outline
         /\ ~last'.error
         /\ last'.enabled =>
                /\ (focusElement \notin {NoElement, last'.el} =>
                        focusBorder'[focusElement] = NoOverlay)
                /\ focusBorder'[last'.el] # NoOverlay
                /\ \E i \in 1 .. Len(last'.log) :
                        /\ last'.log[i].ev = "rect"
                        /\ last'.log[i].on = focusBorder'[last'.el]
                /\ focusElement' = last'.el]_vars

\* C14: non-focusable target. When the DOM focus candidate is missing or
\* cannot take focus, setFocusToElement adds no listener, does not focus
\* and leaves the outline alone. If the target element has a DOM node the
\* call raises no error and, with focusBorder.enabled true, removes the
\* previous border, adds the new one and records the target. If the target
\* element has no DOM node, a call with focusBorder.enabled true removes the
\* previous border and then fails in addFocusBorder: no border is added and
\* the recorded focus element is unchanged; a call with focusBorder.enabled
\* false changes nothing and raises no error.
NonFocusableProceeds ==
    [][(last'.op = "setFocus" /\ NotFocusable(last'.el, last'.focusEl)) =>
         /\ NoDomEffects(last'.log)
         /\ hcEvents' = hcEvents
         /\ outline' = outline
         /\ last'.error = (last'.enabled /\ ~hasNode(last'.el))
         /\ (last'.enabled /\ hasNode(last'.el)) =>
                /\ (focusElement \notin {NoElement, last'.el} =>
                        focusBorder'[focusElement] = NoOverlay)
                /\ focusBorder'[last'.el] # NoOverlay
                /\ \E i \in 1 .. Len(last'.log) :
                        /\ last'.log[i].ev = "rect"
                        /\ last'.log[i].on = focusBorder'[last'.el]
                /\ focusElement' = last'.el
         /\ (last'.enabled /\ ~hasNode(last'.el)) =>
                /\ (focusElement # NoElement =>
                        focusBorder'[focusElement] = NoOverlay)
                /\ focusBorder'[last'.el] = NoOverlay
                /\ \A i \in 1 .. Len(last'.log) : last'.log[i].ev # "rect"
                /\ focusElement' = focusElement
         /\ ~last'.enabled =>
                /\ focusBorder' = focusBorder
                /\ rects' = rects
                /\ focusElement' = focusElement]_vars

\* A call whose candidate has no focus method removed the border of the
\* focus element and drew the border of its target.
NonFocusableProceedsWitness ==
    /\ last.op = "setFocus"
    /\ last.enabled
    /\ Candidate(last.el, last.focusEl) # NoNode
    /\ ~canFocus[Candidate(last.el, last.focusEl)]
    /\ focusElement = last.el
    /\ Created(last.el)
    /\ \E i \in 1 .. Len(last.log) : last.log[i].ev = "destroy"


\* The positions in the effects of a call where the outline style is set.
OutlineEvents(log) == { i \in 1 .. Len(log) : log[i].ev = "outline" }

\* C15: outline suppression. setFocusToElement sets the outline style of
\* the DOM focus candidate to none exactly when hideBrowserFocusOutline is
\* true and the candidate can take focus, and only after the native focus
\* call, whatever focusBorder.enabled is; otherwise the outline style of
\* every node is left as it was.
OutlineSuppression ==
    [][last'.op = "setFocus" =>
         LET n == Candidate(last'.el, last'.focusEl)
             log == last'.log
         IN  /\ (OutlineEvents(log) # {}) =
                    (last'.hide /\ n # NoNode /\ canFocus[n])
             /\ \A i \in OutlineEvents(log) :
                    /\ log[i].on = n
                    /\ \E j \in 1 .. (i - 1) :
                            log[j].ev = "focus" /\ log[j].on = n
             /\ outline' = IF OutlineEvents(log) # {}
                           THEN [outline EXCEPT ![n] = "none"]
                           ELSE outline]_vars

\* The outline of a focused node was hidden by a call made with the focus
\* border disabled.
OutlineSuppressionWitness ==
    /\ last.op = "setFocus"
    /\ ~last.enabled
    /\ last.hide
    /\ outline[Candidate(last.el, last.focusEl)] = "none"
    /\ OutlineEvents(last.log) # {}


\* C16: disabled call frame. A setFocusToElement call made with
\* focusBorder.enabled false leaves the overlay slot of every element and
\* the recorded focus element of the chart as they were: a border drawn
\* earlier stays in place.
DisabledCallFrame ==
    [][(last'.op = "setFocus" /\ ~last'.enabled) =>
         /\ focusBorder' = focusBorder
         /\ rects' = rects
         /\ focusElement' = focusElement]_vars

\* A disabled call on one element while another element is the recorded
\* focus element and has its border.
DisabledCallFrameWitness ==
    /\ last.op = "setFocus"
    /\ ~last.enabled
    /\ focusElement \notin {NoElement, last.el}
    /\ Owns(focusElement)
    /\ rects[focusBorder[focusElement]].alive


\* C17: the focus is never cleared. Once setFocusToElement has recorded a
\* focus element, no call of setFocusToElement, addFocusBorder or
\* removeFocusBorder makes the recorded element empty again; in particular
\* removeFocusBorder on the recorded element removes its border and leaves
\* it recorded.
FocusNeverCleared ==
    [][/\ focusElement # NoElement => focusElement' # NoElement
       /\ (last'.op = "remove" /\ last'.el = focusElement) =>
            /\ focusBorder'[focusElement] = NoOverlay
            /\ focusElement' = focusElement]_vars

\* removeFocusBorder has destroyed the border of the recorded element.
FocusNeverClearedWitness ==
    /\ last.op = "remove"
    /\ last.el = focusElement
    /\ ~Owns(focusElement)
    /\ \E i \in 1 .. Len(last.log) :
        last.log[i].ev = "destroy" /\ last.log[i].of = focusElement


\* C18: an overlay implies the active element. On a chart that starts
\* without borders and is bordered through setFocusToElement only, with
\* focusBorder.enabled true or false on each call, every element that owns
\* a border is the recorded focus element, so at most one element owns one.
OverlayImpliesActive ==
    /\ \A e \in Elements : Owns(e) => focusElement = e
    /\ Cardinality({ e \in Elements : Owns(e) }) <= 1

\* After a disabled call on another element the border is still on the
\* recorded focus element.
OverlayImpliesActiveWitness ==
    /\ last.op = "setFocus"
    /\ ~last.enabled
    /\ focusElement \notin {NoElement, last.el}
    /\ Owns(focusElement)
    /\ \E i \in 1 .. Len(last.log) : last.log[i].ev = "focus"


\* C19: element-local effect. addFocusBorder and removeFocusBorder on an
\* element change the overlay slot of that element only, creating or
\* destroying its rectangle: the slots and rectangles of the other elements
\* and the recorded focus element are unchanged, no DOM node is focused and
\* no listener is registered.
ElementLocalEffect ==
    [][last'.op \in {"add", "remove"} =>
         /\ \A x \in Elements \ {last'.el} :
                focusBorder'[x] = focusBorder[x] /\ elem'[x] = elem[x]
         /\ \A i \in 1 .. Len(rects) :
                i # focusBorder[last'.el] => rects'[i] = rects[i]
         /\ focusElement' = focusElement
         /\ hcEvents' = hcEvents
         /\ outline' = outline
         /\ \A i \in 1 .. Len(last'.log) :
                /\ last'.log[i].ev \in {"rect", "destroy"}
                /\ last'.log[i].of = last'.el
         /\ last'.op = "add" => focusBorder'[last'.el] = Len(rects')
         /\ last'.op = "remove" => focusBorder'[last'.el] = NoOverlay]_vars

\* addFocusBorder has drawn the border of an element while another element
\* is the recorded focus element and keeps its own border.
ElementLocalEffectWitness ==
    /\ last.op = "add"
    /\ Created(last.el)
    /\ focusElement \notin {NoElement, last.el}
    /\ Owns(focusElement)
    /\ rects[focusBorder[focusElement]].alive

====
